---------------------------- MODULE Spec2Model ----------------------------
(***************************************************************************)
(* A model of the Wykop API client, src/wykop/wykop_api.py: one WykopAPI   *)
(* object, its token, its HTTP transport handle, and the four public       *)
(* methods authenticate, make_request, get_entries_by_tag and close.  The  *)
(* remote service and the network are the environment: every call that     *)
(* reaches the transport receives a response (a status code with a body)   *)
(* or a transport failure, chosen nondeterministically.                    *)
(*                                                                         *)
(* Strings the code inspects character by character (endpoints, methods,   *)
(* the base URL) are sequences of one-character strings; opaque strings    *)
(* (tokens, keys, response texts) are TLA+ strings.                        *)
(***************************************************************************)
EXTENDS Integers, Sequences, FiniteSets, TLC

VARIABLES
    app_key,     \* self.app_key
    secret,      \* self.secret
    base_url,    \* self.base_url
    token,       \* self.token
    closed,      \* whether self.client has been closed
    pc,          \* "idle": the caller may call; "returned": a call just ended
    last,        \* the call that just ended: arguments, traffic and outcome
    afterAuth    \* the previous completed call was an authenticate() that
                 \* returned normally

vars == <<app_key, secret, base_url, token, closed, pc, last, afterAuth>>

---------------------------------------------------------------------------
(* Bounds of the model.                                                    *)

\* Longest endpoint string the caller passes to make_request.
MaxLen == 4
\* Longest "data" list in a stream response.
MaxItems == 2

---------------------------------------------------------------------------
(* Python values.                                                          *)

None == [type |-> "NoneType"]
PyStr(s) == [type |-> "str", val |-> s]
PyInt(n) == [type |-> "int", val |-> n]
PyDict(d) == [type |-> "dict", val |-> d]

\* Python's truth value of an object, as used by `if x` and `not x`.
Truthy(v) ==
    CASE v.type = "NoneType" -> FALSE
      [] v.type = "str" -> v.val # ""
      [] v.type = "int" -> v.val # 0
      [] v.type = "dict" -> DOMAIN v.val # {}
      [] OTHER -> TRUE

\* dict.get(key): the value, or None when the key is missing.
DictGet(d, key) == IF key \in DOMAIN d THEN d[key] ELSE None

---------------------------------------------------------------------------
(* Character strings.                                                      *)

Slash == "/"

LowerLetters == <<"a","b","c","d","e","f","g","h","i","j","k","l","m",
                  "n","o","p","q","r","s","t","u","v","w","x","y","z">>
UpperLetters == <<"A","B","C","D","E","F","G","H","I","J","K","L","M",
                  "N","O","P","Q","R","S","T","U","V","W","X","Y","Z">>

UpperChar(c) ==
    IF \E i \in DOMAIN LowerLetters : LowerLetters[i] = c
    THEN UpperLetters[CHOOSE i \in DOMAIN LowerLetters : LowerLetters[i] = c]
    ELSE c

\* str.upper()
Upper(s) == [i \in DOMAIN s |-> UpperChar(s[i])]

\* str.startswith("/") and str.endswith("/")
StartsWithSlash(s) == Len(s) > 0 /\ s[1] = Slash
EndsWithSlash(s) == Len(s) > 0 /\ s[Len(s)] = Slash

IsSpace(c) == c = " "

\* str.strip(): leading and trailing whitespace removed.
RECURSIVE LStrip(_)
LStrip(s) == IF Len(s) > 0 /\ IsSpace(s[1]) THEN LStrip(Tail(s)) ELSE s
RECURSIVE RStrip(_)
RStrip(s) ==
    IF Len(s) > 0 /\ IsSpace(s[Len(s)])
    THEN RStrip(SubSeq(s, 1, Len(s) - 1))
    ELSE s
Strip(s) == RStrip(LStrip(s))

\* All sequences over S of length at most n.
RECURSIVE SeqsUpTo(_, _)
SeqsUpTo(S, n) ==
    IF n = 0 THEN {<<>>}
    ELSE LET shorter == SeqsUpTo(S, n - 1)
         IN  shorter \cup {Append(s, x) : s \in shorter, x \in S}

---------------------------------------------------------------------------
(* Construction.                                                           *)

DefaultBaseUrl ==
    <<"h","t","t","p","s",":","/","/","w","y","k","o","p",".","p","l",
      "/","a","p","i","/","v","3">>

\* Keys as the caller passes them to the constructor.
RawKeys == {<<"a">>, <<" ","a"," ">>}

---------------------------------------------------------------------------
(* The environment: what the transport hands back.                         *)

NoResponse == [type |-> "none"]
TransportFailure == [type |-> "error"]
Response(status, body) ==
    [type |-> "response", status_code |-> status, body |-> body]

StatusCodes == {200, 201, 401, 500}

\* A response body: its text, and what response.json() makes of it.
JsonBody(text, value) == [text |-> text, is_json |-> TRUE, json |-> value]
HtmlBody == [text |-> "<html>Bad Gateway</html>", is_json |-> FALSE, json |-> None]
MessageBody == JsonBody("{\"message\":\"error\"}", PyDict([message |-> PyStr("error")]))

\* The token member of an auth response: a string, an empty string or null.
TokenValues == {PyStr("t1"), PyStr("t2"), PyStr(""), None}

TokenText(v) == IF v.type = "NoneType" THEN "null" ELSE "\"" \o v.val \o "\""

TokenBody(v) ==
    JsonBody("{\"data\":{\"token\":" \o TokenText(v) \o "}}",
             PyDict([data |-> PyDict([token |-> v])]))

AuthBodies == {HtmlBody, MessageBody} \cup {TokenBody(v) : v \in TokenValues}

AuthOutcomes ==
    {TransportFailure} \cup {Response(s, b) : s \in StatusCodes, b \in AuthBodies}

---------------------------------------------------------------------------
(* Outcomes of a call.                                                     *)

NoError == [kind |-> "none"]
Raise(kind) == [kind |-> kind]
\* The exceptions whose message or payload carries the response.
RaiseWith(kind, response) ==
    [kind |-> kind, status_code |-> response.status_code,
     text |-> response.body.text]

Outcome(tok, sent, response, returned, raised) ==
    [token |-> tok, sent |-> sent, response |-> response,
     returned |-> returned, raised |-> raised]

\* A keyword argument that is not passed to the transport.
NotPassed == [type |-> "absent"]

Request(verb, url, headers, params, json, follow) ==
    [verb |-> verb, url |-> url, headers |-> headers, params |-> params,
     json |-> json, follow_redirects |-> follow]

POST == <<"P","O","S","T">>
GET == <<"G","E","T">>
PUT == <<"P","U","T">>
DELETE == <<"D","E","L","E","T","E">>
PATCH == <<"P","A","T","C","H">>

---------------------------------------------------------------------------
(* authenticate()                                                          *)

AuthUrl(base) == base \o <<"/","a","u","t","h">>

AuthHeaders ==
    [ContentType |-> "application/json", Accept |-> "application/json"]

AuthRequest(base, key, sec) ==
    Request(POST, AuthUrl(base), AuthHeaders, NotPassed,
            [data |-> [key |-> key, secret |-> sec]], FALSE)

\* `response.status_code == 200`
AuthSucceeded(status) == status = 200

\* response_data["data"]["token"] can be read
HasToken(json) ==
    /\ json.type = "dict"
    /\ "data" \in DOMAIN json.val
    /\ json.val["data"].type = "dict"
    /\ "token" \in DOMAIN json.val["data"].val

ReadToken(json) == json.val["data"].val["token"]

\* `self.token = ...`: the new value replaces the old one.
StoreTokenOnce(old, new) == IF old.type = "NoneType" THEN new ELSE old
StoreToken(old, new) == new

authenticate(tok, base, key, sec, out) ==
    LET sent == <<AuthRequest(base, key, sec)>> IN
    IF out.type = "error"
    THEN Outcome(tok, sent, out, None, Raise("TransportError"))
    ELSE IF ~out.body.is_json
    THEN Outcome(tok, sent, out, None, Raise("JSONDecodeError"))
    ELSE IF AuthSucceeded(out.status_code)
    THEN IF HasToken(out.body.json)
         THEN LET t == StoreToken(tok, ReadToken(out.body.json))
              IN  Outcome(t, sent, out, t, NoError)
         ELSE Outcome(tok, sent, out, None, Raise("KeyError"))
    ELSE Outcome(tok, sent, out, None, RaiseWith("AuthenticationFailure", out))

---------------------------------------------------------------------------
(* make_request(endpoint, method, params, data)                            *)

\* Endpoints the caller passes: every string over "/" and a path letter.
EndpointChars == {Slash, "a"}
Endpoints == SeqsUpTo(EndpointChars, MaxLen)

TRACE == <<"T","R","A","C","E">>
Methods == {GET, POST, PUT, DELETE, PATCH, TRACE,
            <<"g","e","t">>, <<"P","o","s","t">>, <<"t","r","a","c","e">>}

ParamsArgs == {None, PyDict([q |-> PyStr("x")])}
DataArgs == {None, PyDict([key |-> PyStr("value")])}

GenericBodies == {HtmlBody, MessageBody}
GenericOutcomes ==
    {TransportFailure}
        \cup {Response(s, b) : s \in StatusCodes, b \in GenericBodies}

\* `if not self.token`
TokenMissingNever(tok) == FALSE
TokenMissing(tok) == ~Truthy(tok)

\* The endpoint gets a leading slash when it has none, and then loses one
\* trailing slash when it has one.
KeepTrailingSlash(endpoint) ==
    IF ~StartsWithSlash(endpoint) THEN <<Slash>> \o endpoint ELSE endpoint
NormalizeEndpoint(endpoint) ==
    LET e == IF ~StartsWithSlash(endpoint)
             THEN <<Slash>> \o endpoint
             ELSE endpoint
    IN  IF EndsWithSlash(e) THEN SubSeq(e, 1, Len(e) - 1) ELSE e

\* What an f-string makes of the token: str(None) is "None".
Format(tok) == IF tok.type = "NoneType" THEN "None" ELSE tok.val

RequestHeaders(tok) ==
    [Authorization |-> "Bearer " \o Format(tok),
     ContentType |-> "application/json", Accept |-> "application/json"]

\* The keys of the http_methods table.
HttpMethods == {GET, POST, PUT, DELETE, PATCH}

\* `if method in http_methods`, after `method = method.upper()`
AnyMethodSupported(method) == TRUE
MethodSupported(method) == Upper(method) \in HttpMethods

\* `if method == "GET" or method == "DELETE"`: the verbs that send params.
OnlyGetSendsParams(method) == method = GET
SendsParams(method) == method = GET \/ method = DELETE

\* response.raise_for_status() lets a 2xx response through.
IsSuccess(status) == 200 <= status /\ status <= 299

make_request(tok, base, endpoint, method, params, data, out) ==
    IF TokenMissing(tok)
    THEN Outcome(tok, <<>>, NoResponse, None, Raise("AuthenticationRequired"))
    ELSE
    LET url == base \o NormalizeEndpoint(endpoint)
        headers == RequestHeaders(tok)
        verb == Upper(method)
        sent == IF SendsParams(verb)
                THEN <<Request(verb, url, headers, params, NotPassed, TRUE)>>
                ELSE <<Request(verb, url, headers, NotPassed, data, TRUE)>>
    IN
    IF ~MethodSupported(method)
    THEN Outcome(tok, <<>>, NoResponse, None, Raise("UnsupportedMethod"))
    ELSE IF out.type = "error"
    THEN Outcome(tok, sent, out, None, Raise("TransportError"))
    ELSE IF ~IsSuccess(out.status_code)
    THEN Outcome(tok, sent, out, None, RaiseWith("HTTPStatusError", out))
    ELSE IF ~out.body.is_json
    THEN Outcome(tok, sent, out, None, Raise("JSONDecodeError"))
    ELSE Outcome(tok, sent, out, out.body.json, NoError)

---------------------------------------------------------------------------
(* get_entries_by_tag(tag_name, page, limit, sort, type, year, month)      *)

Tags == {<<"a">>, <<"a","b">>}
Pages == {1, 2}
Limits == {25}
Sorts == {"all", "best"}
Types == {"all", "entry"}
Years == {None, PyInt(0), PyInt(2023)}
Months == {None, PyInt(0), PyInt(5)}

\* Objects of a stream: an entry, a link, and a link whose description is
\* the empty string.  Each with its JSON text.
StreamObjects ==
    { [text |-> "{\"id\":1,\"body\":\"hi\"}",
       obj |-> PyDict([id |-> PyInt(1), body |-> PyStr("hi")])],
      [text |-> "{\"id\":2,\"description\":\"d\",\"title\":\"t\"}",
       obj |-> PyDict([id |-> PyInt(2), description |-> PyStr("d"),
                       title |-> PyStr("t")])],
      [text |-> "{\"id\":3,\"description\":\"\",\"title\":\"t\"}",
       obj |-> PyDict([id |-> PyInt(3), description |-> PyStr(""),
                       title |-> PyStr("t")])] }

RECURSIVE JoinTexts(_)
JoinTexts(items) ==
    IF items = <<>> THEN ""
    ELSE IF Len(items) = 1 THEN items[1].text
    ELSE items[1].text \o "," \o JoinTexts(Tail(items))

StreamBody(items) ==
    JsonBody("{\"data\":[" \o JoinTexts(items) \o "]}",
             PyDict([data |-> [i \in DOMAIN items |-> items[i].obj]]))

StreamBodies ==
    {HtmlBody, MessageBody}
        \cup {StreamBody(items) : items \in SeqsUpTo(StreamObjects, MaxItems)}

StreamOutcomes ==
    {TransportFailure}
        \cup {Response(s, b) : s \in StatusCodes, b \in StreamBodies}

StreamEndpoint(tag_name) ==
    <<"/","t","a","g","s","/">> \o tag_name \o <<"/","s","t","r","e","a","m">>

\* `if year: params["year"] = year` (and the same for month)
WithOptional(params, key, value) ==
    IF Truthy(value) THEN (key :> value) @@ params ELSE params

QueryParams(page, limit, sort, type, year, month) ==
    LET required == [page |-> PyInt(page), limit |-> PyInt(limit),
                     sort |-> PyStr(sort), type |-> PyStr(type)]
    IN  WithOptional(WithOptional(required, "year", year), "month", month)

\* `if entry_data.get("description")`
IsLink(entry_data) == Truthy(DictGet(entry_data.val, "description"))

\* pydantic's parse_obj_as(Model, entry_data): the typed record.
ParseObjAs(model, entry_data) == [model |-> model, fields |-> entry_data.val]

ParseItem(entry_data) ==
    IF IsLink(entry_data)
    THEN ParseObjAs("WykopLink", entry_data)
    ELSE ParseObjAs("WykopEntry", entry_data)

get_entries_by_tag(tok, base, tag_name, page, limit, sort, type, year, month, out) ==
    LET params == QueryParams(page, limit, sort, type, year, month)
        r == make_request(tok, base, StreamEndpoint(tag_name), GET,
                          PyDict(params), None, out)
    IN
    IF r.raised.kind # "none"
    THEN r
    ELSE IF "data" \notin DOMAIN r.returned.val
    THEN Outcome(tok, r.sent, r.response, None, Raise("KeyError"))
    ELSE LET data == r.returned.val["data"]
         IN  Outcome(tok, r.sent, r.response,
                     [i \in DOMAIN data |-> ParseItem(data[i])], NoError)

---------------------------------------------------------------------------
(* The session.                                                            *)

NoCall == [op |-> "none"]

Init ==
    /\ \E k \in RawKeys, s \in RawKeys :
          /\ app_key = Strip(k)
          /\ secret = Strip(s)
    /\ base_url = DefaultBaseUrl
    /\ token = None
    /\ closed = FALSE
    /\ pc = "idle"
    /\ last = NoCall
    /\ afterAuth = FALSE

Authenticate ==
    /\ pc = "idle"
    /\ \E out \in AuthOutcomes :
          LET r == authenticate(token, base_url, app_key, secret, out) IN
          /\ token' = r.token
          /\ last' = [op |-> "authenticate", tokenBefore |-> token,
                      sent |-> r.sent, response |-> r.response,
                      returned |-> r.returned, raised |-> r.raised]
    /\ pc' = "returned"
    /\ UNCHANGED <<app_key, secret, base_url, closed, afterAuth>>

MakeRequest ==
    /\ pc = "idle"
    /\ \E endpoint \in Endpoints, method \in Methods,
          params \in ParamsArgs, data \in DataArgs, out \in GenericOutcomes :
          LET r == make_request(token, base_url, endpoint, method, params,
                                data, out)
          IN
          /\ token' = r.token
          /\ last' = [op |-> "make_request", tokenBefore |-> token,
                      args |-> [endpoint |-> endpoint, method |-> method,
                                params |-> params, data |-> data],
                      sent |-> r.sent, response |-> r.response,
                      returned |-> r.returned, raised |-> r.raised]
    /\ pc' = "returned"
    /\ UNCHANGED <<app_key, secret, base_url, closed, afterAuth>>

GetEntriesByTag ==
    /\ pc = "idle"
    /\ \E tag_name \in Tags, page \in Pages, limit \in Limits, sort \in Sorts,
          type \in Types, year \in Years, month \in Months,
          out \in StreamOutcomes :
          LET r == get_entries_by_tag(token, base_url, tag_name, page, limit,
                                      sort, type, year, month, out)
          IN
          /\ token' = r.token
          /\ last' = [op |-> "get_entries_by_tag", tokenBefore |-> token,
                      args |-> [tag_name |-> tag_name, page |-> page,
                                limit |-> limit, sort |-> sort, type |-> type,
                                year |-> year, month |-> month],
                      sent |-> r.sent, response |-> r.response,
                      returned |-> r.returned, raised |-> r.raised]
    /\ pc' = "returned"
    /\ UNCHANGED <<app_key, secret, base_url, closed, afterAuth>>

\* close(): the transport handle is released; nothing else changes.
Close ==
    /\ pc = "idle"
    /\ closed' = TRUE
    /\ last' = [op |-> "close", tokenBefore |-> token, sent |-> <<>>,
                response |-> NoResponse, returned |-> None, raised |-> NoError]
    /\ pc' = "returned"
    /\ UNCHANGED <<app_key, secret, base_url, token, afterAuth>>

\* The caller takes the result (or the exception) and goes on.
Return ==
    /\ pc = "returned"
    /\ pc' = "idle"
    /\ afterAuth' = (last.op = "authenticate" /\ last.raised.kind = "none")
    /\ last' = NoCall
    /\ UNCHANGED <<app_key, secret, base_url, token, closed>>

Next == Authenticate \/ MakeRequest \/ GetEntriesByTag \/ Close \/ Return

Spec == Init /\ [][Next]_vars

---------------------------------------------------------------------------
(* Properties.  Each is stated over the call that just ended (`last`), the *)
(* token before it (`last.tokenBefore`) and the token after it (`token`).  *)

Ended(op) == pc = "returned" /\ last.op = op
Unset(tok) == tok.type = "NoneType"

\* C1: while no token has been obtained, make_request and
\* get_entries_by_tag fail with AuthenticationRequired and send nothing,
\* whatever their arguments; the only request sent in that state is
\* authenticate()'s POST to the auth endpoint.
C1_NoRequestWithoutToken ==
    (pc = "returned" /\ Unset(last.tokenBefore)) =>
        /\ last.op \in {"make_request", "get_entries_by_tag"} =>
              /\ last.raised = Raise("AuthenticationRequired")
              /\ last.sent = <<>>
        /\ last.sent # <<>> =>
              /\ last.op = "authenticate"
              /\ Len(last.sent) = 1
              /\ last.sent[1].verb = POST
              /\ last.sent[1].url = AuthUrl(base_url)

C1_Witness ==
    /\ Ended("make_request")
    /\ Unset(last.tokenBefore)
    /\ last.args.method = TRACE
    /\ last.raised.kind = "AuthenticationRequired"

\* C2: a 200 auth response carrying token t makes authenticate() return t
\* and leaves the session token equal to t, whatever the token was before.
C2_AuthenticateStoresAndReturnsToken ==
    ( /\ Ended("authenticate")
      /\ last.response.type = "response"
      /\ last.response.status_code = 200
      /\ HasToken(last.response.body.json) ) =>
        LET t == ReadToken(last.response.body.json) IN
        /\ last.raised = NoError
        /\ last.returned = t
        /\ token = t

C2_Witness ==
    /\ Ended("authenticate")
    /\ last.tokenBefore = PyStr("t1")
    /\ last.response.type = "response"
    /\ last.response.status_code = 200
    /\ last.returned = PyStr("t2")
    /\ token = PyStr("t2")

\* C3: every non-200 auth response, whatever its body, makes authenticate()
\* fail with AuthenticationFailure carrying the response's status and body.
C3_NonOkRaisesAuthenticationFailure ==
    ( /\ Ended("authenticate")
      /\ last.response.type = "response"
      /\ last.response.status_code # 200 ) =>
        last.raised = [kind |-> "AuthenticationFailure",
                       status_code |-> last.response.status_code,
                       text |-> last.response.body.text]

\* C4: the token changes only in an authenticate() that returns normally,
\* and a token that has been set is never unset again.
C4_TokenSetOnceNeverCleared ==
    [][ /\ token' # token =>
              (last'.op = "authenticate" /\ last'.raised = NoError)
        /\ ~Unset(token) => ~Unset(token') ]_vars

\* C5 as written: with a token, every method string outside
\* {GET, POST, PUT, DELETE, PATCH} fails with UnsupportedMethod and sends
\* nothing.
C5_MethodOutsideSetRejected ==
    ( /\ Ended("make_request")
      /\ Truthy(last.tokenBefore)
      /\ last.args.method \notin HttpMethods ) =>
        /\ last.raised = Raise("UnsupportedMethod")
        /\ last.sent = <<>>

\* C5, amended: with a non-empty token, every method string whose
\* upper-cased form is outside {GET, POST, PUT, DELETE, PATCH} fails with
\* UnsupportedMethod and sends nothing.
C5_UppercasedMethodOutsideSetRejected ==
    ( /\ Ended("make_request")
      /\ Truthy(last.tokenBefore)
      /\ Upper(last.args.method) \notin HttpMethods ) =>
        /\ last.raised = Raise("UnsupportedMethod")
        /\ last.sent = <<>>

C5_Witness ==
    /\ Ended("make_request")
    /\ Truthy(last.tokenBefore)
    /\ last.args.method = <<"t","r","a","c","e">>
    /\ last.raised.kind = "UnsupportedMethod"
    /\ last.sent = <<>>

\* The endpoint without one leading and one trailing slash: what spellings
\* that differ only in those slashes have in common.
Core(endpoint) ==
    LET e == IF StartsWithSlash(endpoint) THEN Tail(endpoint) ELSE endpoint
    IN  IF EndsWithSlash(e) THEN SubSeq(e, 1, Len(e) - 1) ELSE e

\* The part of a request's URL after the base URL.
PathOf(request) == SubSeq(request.url, Len(base_url) + 1, Len(request.url))

Canonical(endpoint, request) ==
    /\ SubSeq(request.url, 1, Len(base_url)) = base_url
    /\ StartsWithSlash(PathOf(request))
    /\ ~EndsWithSlash(PathOf(request))
    /\ PathOf(request) = <<Slash>> \o Core(endpoint)

\* C6 as written: for every endpoint string the requested path has a
\* leading slash and no trailing slash, and is the same for all spellings
\* that differ only in a leading and/or trailing slash.
C6_EveryEndpointNormalized ==
    (Ended("make_request") /\ last.sent # <<>>) =>
        Canonical(last.args.endpoint, last.sent[1])

\* C6, amended: the same, for the endpoints that are a non-empty path p
\* neither starting nor ending with a slash, spelled p, /p, p/ or /p/.
C6_PlainEndpointNormalized ==
    ( /\ Ended("make_request")
      /\ last.sent # <<>>
      /\ Core(last.args.endpoint) # <<>>
      /\ ~StartsWithSlash(Core(last.args.endpoint))
      /\ ~EndsWithSlash(Core(last.args.endpoint)) ) =>
        Canonical(last.args.endpoint, last.sent[1])

C6_Witness ==
    /\ Ended("make_request")
    /\ last.args.endpoint = <<"a","/","a","/">>
    /\ last.sent # <<>>
    /\ last.sent[1].url = base_url \o <<"/","a","/","a">>

\* C7: a successful stream response with n objects yields n items in
\* response order, the i-th a Link if the i-th object has a description
\* field and an Entry otherwise.
C7_ItemsTypedByDescriptionField ==
    (Ended("get_entries_by_tag") /\ last.raised = NoError) =>
        LET data == last.response.body.json.val["data"] IN
        /\ Len(last.returned) = Len(data)
        /\ \A i \in DOMAIN data :
              /\ last.returned[i].fields = data[i].val
              /\ last.returned[i].model =
                    IF "description" \in DOMAIN data[i].val
                    THEN "WykopLink"
                    ELSE "WykopEntry"

\* C8: the stream query always has page, limit, sort and type; it has year
\* (month) with exactly the supplied value whenever one is supplied, and no
\* year (month) key when none is supplied.
C8_QueryCarriesSuppliedYearMonth ==
    (Ended("get_entries_by_tag") /\ last.sent # <<>>) =>
        LET q == last.sent[1].params.val
            a == last.args
        IN
        /\ {"page", "limit", "sort", "type"} \subseteq DOMAIN q
        /\ q["page"] = PyInt(a.page) /\ q["limit"] = PyInt(a.limit)
        /\ q["sort"] = PyStr(a.sort) /\ q["type"] = PyStr(a.type)
        /\ IF Unset(a.year) THEN "year" \notin DOMAIN q
           ELSE "year" \in DOMAIN q /\ q["year"] = a.year
        /\ IF Unset(a.month) THEN "month" \notin DOMAIN q
           ELSE "month" \in DOMAIN q /\ q["month"] = a.month

\* C9: with a token, make_request sends exactly one request of the
\* requested verb: GET and DELETE carry the caller's params and no body,
\* POST, PUT and PATCH carry the caller's data as JSON and no params.
C9_OneRequestParamsOrBody ==
    ( /\ Ended("make_request")
      /\ Truthy(last.tokenBefore)
      /\ Upper(last.args.method) \in HttpMethods ) =>
        /\ Len(last.sent) = 1
        /\ last.sent[1].verb = Upper(last.args.method)
        /\ IF last.sent[1].verb \in {GET, DELETE}
           THEN /\ last.sent[1].params = last.args.params
                /\ last.sent[1].json = NotPassed
           ELSE /\ last.sent[1].json = last.args.data
                /\ last.sent[1].params = NotPassed

C9_Witness ==
    /\ Ended("make_request")
    /\ last.args.method = DELETE
    /\ last.args.params # None
    /\ last.args.data # None
    /\ Len(last.sent) = 1
    /\ last.sent[1].verb = DELETE
    /\ last.sent[1].json = NotPassed

\* C10: the make_request that follows an authenticate() that returned
\* normally does not fail with AuthenticationRequired.
C10_RequestAfterAuthenticatePassesTokenCheck ==
    [][ (pc = "idle" /\ afterAuth /\ last'.op = "make_request") =>
            last'.raised.kind # "AuthenticationRequired" ]_vars

=============================================================================
